---- MODULE Spec2Model ----
(***************************************************************************)
(* The study-plan scheduler of src/app/(app)/home/page.tsx: the slot       *)
(* allocator (getTopicForStudySlot), the day planner                       *)
(* (generateDailyScheduleForDate), the plan builder (generateTimetable)    *)
(* and the page's handlers over the stored plan.                           *)
(*                                                                         *)
(* Representation.  An instant (a JS Date, Date.now()) is an integer       *)
(* number of clock ticks since local midnight of 2024-01-01; a day has     *)
(* TicksPerDay ticks.  A string that is taken apart or compared character  *)
(* by character (a start time) is looked up as its sequence of one-        *)
(* character strings; an optional value (T | null) is <<>> or <<v>>.       *)
(***************************************************************************)
EXTENDS Integers, Sequences, FiniteSets, TLC

(* ------------------------------ bounds -------------------------------- *)

\* Longest plan, in days, that the generator is run for.
MaxDays == 10
\* Clock ticks per calendar day (the resolution of Date.now()).
TicksPerDay == 2
\* Invocations of generateTimetable in one behaviour of RegenSpec.
MaxRuns == 3
\* User operations on the page in one behaviour of PageSpec.
MaxOps == 4
\* Clock ticks that pass during one behaviour of PageSpec.
MaxTicks == 1
\* The generated tasks the user works on in PageSpec: the first MaxTargets
\* tasks of the list (and every custom task).
MaxTargets == 1

\* The events of the user on the form.
MaxFormEvents == 6

(* ----------------------------- constants ------------------------------ *)

MAX_STUDY_SLOTS_PER_DAY == 4

None == <<>>
Some(v) == <<v>>

(* ------------------------- the subject catalog ------------------------- *)

\* '@/lib/constants' is not among the sources.  The catalog is reference
\* data keyed by exam type; one exam type per catalog length 1..5 is taken,
\* and "other" is an exam type with no entry.
SubjectPool ==
  << [value |-> "physics",     label |-> "Physics"],
     [value |-> "chemistry",   label |-> "Chemistry"],
     [value |-> "biology",     label |-> "Biology"],
     [value |-> "mathematics", label |-> "Mathematics"],
     [value |-> "english",     label |-> "English"] >>

SUBJECTS_BY_EXAM ==
  [e \in {"exam1", "exam2", "exam3", "exam4", "exam5"} |->
     SubSeq(SubjectPool, 1,
            CASE e = "exam1" -> 1 [] e = "exam2" -> 2 [] e = "exam3" -> 3
              [] e = "exam4" -> 4 [] OTHER -> 5)]

EXAM_TYPES == <<"exam1", "exam2", "exam3", "exam4", "exam5", "other">>

\* SUBJECTS_BY_EXAM[examType] || []
SubjectsOf(examType) ==
  IF examType \in DOMAIN SUBJECTS_BY_EXAM THEN SUBJECTS_BY_EXAM[examType] ELSE <<>>

(* ------------------------- sequences and text -------------------------- *)

Range(s) == {s[k] : k \in DOMAIN s}

\* Array.prototype.includes
Includes(arr, v) == \E k \in DOMAIN arr : arr[k] = v

\* The decimal rendering of 0..99 in two digits (the MM and dd of a format).
Pad2(n) == IF n < 10 THEN "0" \o ToString(n) ELSE ToString(n)

\* The string made of the characters cs.
RECURSIVE Join(_)
Join(cs) == IF cs = <<>> THEN "" ELSE Head(cs) \o Join(Tail(cs))

\* The characters of the time strings the page uses.
Chars(s) ==
  CASE s = "07:00 AM" -> <<"0", "7", ":", "0", "0", " ", "A", "M">>
    [] s = "07:30 AM" -> <<"0", "7", ":", "3", "0", " ", "A", "M">>
    [] s = "08:30 AM" -> <<"0", "8", ":", "3", "0", " ", "A", "M">>
    [] s = "10:30 AM" -> <<"1", "0", ":", "3", "0", " ", "A", "M">>
    [] s = "11:00 AM" -> <<"1", "1", ":", "0", "0", " ", "A", "M">>
    [] s = "01:00 PM" -> <<"0", "1", ":", "0", "0", " ", "P", "M">>
    [] s = "02:00 PM" -> <<"0", "2", ":", "0", "0", " ", "P", "M">>
    [] s = "04:00 PM" -> <<"0", "4", ":", "0", "0", " ", "P", "M">>
    [] s = "04:30 PM" -> <<"0", "4", ":", "3", "0", " ", "P", "M">>
    [] s = "06:00 PM" -> <<"0", "6", ":", "0", "0", " ", "P", "M">>
    [] s = "07:00 PM" -> <<"0", "7", ":", "0", "0", " ", "P", "M">>
    [] s = "08:00 PM" -> <<"0", "8", ":", "0", "0", " ", "P", "M">>
    [] s = "09:30 PM" -> <<"0", "9", ":", "3", "0", " ", "P", "M">>
    [] s = "10:30 PM" -> <<"1", "0", ":", "3", "0", " ", "P", "M">>
    [] s = "N/A"      -> <<"N", "/", "A">>

\* startTime.replace(/[:\s]/g, '')
StripColonSpace(s) == Join(SelectSeq(Chars(s), LAMBDA c : c \notin {":", " "}))

(* -------------------------------- dates -------------------------------- *)

\* date-fns startOfDay
startOfDay(t) == t - (t % TicksPerDay)

\* date-fns addDays, on an instant
addDays(t, n) == t + n * TicksPerDay

\* date-fns differenceInDays: whole days between two instants, truncated
\* toward zero.
differenceInDays(later, earlier) ==
  LET d == later - earlier
  IN  IF d >= 0 THEN d \div TicksPerDay ELSE -((-d) \div TicksPerDay)

\* date-fns isBefore
isBefore(a, b) == a < b

MonthLengths == <<31, 29, 31, 30, 31, 30, 31, 31, 30, 31, 30, 31>>

\* <<month, day of month>> of the d-th day (0-based) of 2024.
RECURSIVE MonthDay(_, _)
MonthDay(d, m) ==
  IF d < MonthLengths[m] THEN <<m, d + 1>> ELSE MonthDay(d - MonthLengths[m], m + 1)

\* format(date, 'yyyyMMdd') of an instant of 2024
formatYMD(t) ==
  LET md == MonthDay(t \div TicksPerDay, 1)
  IN  "2024" \o Pad2(md[1]) \o Pad2(md[2])

(* --------------------------- slot allocator --------------------------- *)

\* Mutant: the focus subjects looked up key by key, in the order of the keys.
focusTopicsFullInKeyOrder(allExamSubjects, focusSubjectValues) ==
  LET known == SelectSeq(focusSubjectValues,
                         LAMBDA v : \E k \in DOMAIN allExamSubjects :
                                      allExamSubjects[k].value = v)
  IN  [j \in DOMAIN known |->
         allExamSubjects[CHOOSE k \in DOMAIN allExamSubjects :
                           allExamSubjects[k].value = known[j]]]

\* allExamSubjects.filter(s => focusSubjectValues.includes(s.value))
focusTopicsFull(allExamSubjects, focusSubjectValues) ==
  SelectSeq(allExamSubjects, LAMBDA s : Includes(focusSubjectValues, s.value))

\* allExamSubjects.filter(s => !focusSubjectValues.includes(s.value))
otherTopicsFull(allExamSubjects, focusSubjectValues) ==
  SelectSeq(allExamSubjects, LAMBDA s : ~Includes(focusSubjectValues, s.value))

\* studySlotCounterState.counter % MAX_STUDY_SLOTS_PER_DAY
currentSlotIndexInDay(counter) == counter % MAX_STUDY_SLOTS_PER_DAY

\* Mutant: the rotation index without its day term.
combinedTopicRotationIndexSlotOnly(dayNumberInPeriod, slotIndex) == slotIndex

\* (dayNumberInPeriod - 1) * MAX_STUDY_SLOTS_PER_DAY + currentSlotIndexInDay
combinedTopicRotationIndex(dayNumberInPeriod, slotIndex) ==
  (dayNumberInPeriod - 1) * MAX_STUDY_SLOTS_PER_DAY + slotIndex

\* Mutant: the list indexed without the modulo; past the end the lookup gives
\* undefined.
AtWithoutModulo(list, index) ==
  IF index + 1 \in DOMAIN list THEN list[index + 1]
  ELSE [value |-> "undefined", label |-> "undefined"]

\* list[index % list.length], on a non-empty JS array
At(list, index) == list[(index % Len(list)) + 1]

\* Mutant: slot 2 prefers the focus list, as slots 0 and 1 do.
topicToAssignSlot2Focus(focus, other, slotIndex, rotation, counter) ==
  LET hasFocusTopics == Len(focus) > 0
      hasOtherTopics == Len(other) > 0
      preferFocus == IF hasFocusTopics THEN Some(At(focus, rotation))
                     ELSE IF hasOtherTopics THEN Some(At(other, rotation))
                     ELSE None
      preferOther == IF hasOtherTopics THEN Some(At(other, rotation))
                     ELSE IF hasFocusTopics THEN Some(At(focus, rotation))
                     ELSE None
  IN  IF slotIndex <= 2 THEN preferFocus
      ELSE IF counter % 2 = 0 THEN preferFocus
      ELSE preferOther

\* Mutant: slot 3 decided by the parity of the day, not of the counter.
topicToAssignSlot3ByDay(focus, other, slotIndex, rotation, counter) ==
  LET hasFocusTopics == Len(focus) > 0
      hasOtherTopics == Len(other) > 0
      preferFocus == IF hasFocusTopics THEN Some(At(focus, rotation))
                     ELSE IF hasOtherTopics THEN Some(At(other, rotation))
                     ELSE None
      preferOther == IF hasOtherTopics THEN Some(At(other, rotation))
                     ELSE IF hasFocusTopics THEN Some(At(focus, rotation))
                     ELSE None
  IN  IF slotIndex < 2 THEN preferFocus
      ELSE IF slotIndex = 2 THEN preferOther
      ELSE IF (counter \div MAX_STUDY_SLOTS_PER_DAY) % 2 = 0 THEN preferFocus
      ELSE preferOther

\* The slot-position policy: the value of topicToAssign when the counter is
\* incremented.
topicToAssign(focus, other, slotIndex, rotation, counter) ==
  LET hasFocusTopics == Len(focus) > 0
      hasOtherTopics == Len(other) > 0
      preferFocus == IF hasFocusTopics THEN Some(At(focus, rotation))
                     ELSE IF hasOtherTopics THEN Some(At(other, rotation))
                     ELSE None
      preferOther == IF hasOtherTopics THEN Some(At(other, rotation))
                     ELSE IF hasFocusTopics THEN Some(At(focus, rotation))
                     ELSE None
  IN  IF slotIndex < 2 THEN preferFocus
      ELSE IF slotIndex = 2 THEN preferOther
      ELSE IF counter % 2 = 0 THEN preferFocus
      ELSE preferOther

\* The general rotation after the increment, taken when the policy assigned
\* nothing; counter is the incremented counter.
fallbackTopic(allExamSubjects, focus, other, rotation, counter) ==
  LET hasFocusTopics == Len(focus) > 0
      hasOtherTopics == Len(other) > 0
  IN  IF hasFocusTopics /\ hasOtherTopics
        THEN IF counter % 2 = 1 /\ hasFocusTopics
               THEN Some(At(focus, counter \div 2))
               ELSE Some(At(other, counter \div 2))
      ELSE IF hasFocusTopics THEN Some(At(focus, rotation))
      ELSE IF hasOtherTopics THEN Some(At(other, rotation))
      ELSE IF Len(allExamSubjects) > 0 THEN Some(At(allExamSubjects, rotation))
      ELSE None

\* Mutant: the counter stepped twice.
incrementedTwice(counter) == counter + 2

\* studySlotCounterState.counter++
incremented(counter) == counter + 1

\* One call of getTopicForStudySlot: the subject it returns (None for null)
\* and the counter it leaves in studySlotCounterState.
getTopicForStudySlot(allExamSubjects, focusSubjectValues, dayNumberInPeriod, counter) ==
  IF Len(allExamSubjects) = 0 THEN [topic |-> None, counter |-> counter]
  ELSE
    LET focus    == focusTopicsFull(allExamSubjects, focusSubjectValues)
        other    == otherTopicsFull(allExamSubjects, focusSubjectValues)
        slot     == currentSlotIndexInDay(counter)
        rotation == combinedTopicRotationIndex(dayNumberInPeriod, slot)
        assigned == topicToAssign(focus, other, slot, rotation, counter)
        counter1 == incremented(counter)
    IN  [topic   |-> IF assigned # None THEN assigned
                     ELSE fallbackTopic(allExamSubjects, focus, other, rotation, counter1),
         counter |-> counter1]

(* ----------------------------- day planner ---------------------------- *)

\* Mutant: a day id that leaves the date out.
dayIdWithoutDate(currentDate) == "day"

\* `day${format(currentDate, 'yyyyMMdd')}`
dayId(currentDate) == "day" \o formatYMD(currentDate)

\* `${dayId}-study-${startTime.replace(/[:\s]/g, '')}`
studyTaskId(currentDate, startTime) ==
  dayId(currentDate) \o "-study-" \o StripColonSpace(startTime)

\* `${dayId}-task${n}`
fixedTaskId(currentDate, n) == dayId(currentDate) \o "-task" \o ToString(n)

\* Mutant: createStudyTask with the fallback label "Revision".
createStudyTaskRevisionLabel(currentDate, startTime, endTime, topic) ==
  LET label == IF topic # None THEN topic[1].label ELSE "Revision"
  IN  [id          |-> dayId(currentDate) \o "-study-" \o StripColonSpace(startTime),
       date        |-> currentDate,
       startTime   |-> startTime,
       endTime     |-> endTime,
       activity    |-> "Study: " \o label,
       taskType    |-> "study",
       subject     |-> label,
       isCompleted |-> FALSE]

\* Mutant: createStudyTask that sets no subject.
createStudyTaskWithoutSubject(currentDate, startTime, endTime, topic) ==
  LET label == IF topic # None THEN topic[1].label ELSE "General Revision"
  IN  [id          |-> dayId(currentDate) \o "-study-" \o StripColonSpace(startTime),
       date        |-> currentDate,
       startTime   |-> startTime,
       endTime     |-> endTime,
       activity    |-> "Study: " \o label,
       taskType    |-> "study",
       isCompleted |-> FALSE]

\* The task createStudyTask builds from the allocator's answer.
createStudyTask(currentDate, startTime, endTime, topic) ==
  LET label == IF topic # None THEN topic[1].label ELSE "General Revision"
  IN  [id          |-> studyTaskId(currentDate, startTime),
       date        |-> currentDate,
       startTime   |-> startTime,
       endTime     |-> endTime,
       activity    |-> "Study: " \o label,
       taskType    |-> "study",
       subject     |-> label,
       isCompleted |-> FALSE]

\* A literal task of the template, without a subject.
fixedTask(currentDate, n, startTime, endTime, activity, taskType) ==
  [id          |-> fixedTaskId(currentDate, n),
   date        |-> currentDate,
   startTime   |-> startTime,
   endTime     |-> endTime,
   activity    |-> activity,
   taskType    |-> taskType,
   isCompleted |-> FALSE]

\* Mutant: the third and fourth study windows exchanged.
StudySlotTimesExchanged ==
  << <<"08:30 AM", "10:30 AM">>, <<"11:00 AM", "01:00 PM">>,
     <<"04:30 PM", "06:00 PM">>, <<"02:00 PM", "04:00 PM">> >>

\* Mutant: the fourth study window runs an hour into the next task.
StudySlotTimesOverrunning ==
  << <<"08:30 AM", "10:30 AM">>, <<"11:00 AM", "01:00 PM">>,
     <<"02:00 PM", "04:00 PM">>, <<"04:30 PM", "07:00 PM">> >>

\* The start and end times of the four createStudyTask calls, in call order.
StudySlotTimes ==
  << <<"08:30 AM", "10:30 AM">>, <<"11:00 AM", "01:00 PM">>,
     <<"02:00 PM", "04:00 PM">>, <<"04:30 PM", "06:00 PM">> >>

\* The array generateDailyScheduleForDate returns, given the four study
\* tasks its createStudyTask calls built.
dayTasks(currentDate, study) ==
  << fixedTask(currentDate, 1, "07:00 AM", "07:30 AM", "Wake Up & Hydrate", "other"),
     fixedTask(currentDate, 2, "07:30 AM", "08:30 AM", "Breakfast & Morning Routine", "meal"),
     study[1],
     fixedTask(currentDate, 4, "10:30 AM", "11:00 AM", "Short Break / Quick Revision", "break"),
     study[2],
     fixedTask(currentDate, 6, "01:00 PM", "02:00 PM", "Lunch Break", "meal"),
     study[3],
     fixedTask(currentDate, 8, "04:00 PM", "04:30 PM", "Revision of Morning Topics", "revision"),
     study[4],
     fixedTask(currentDate, 10, "06:00 PM", "07:00 PM", "Exercise / Free Time", "other"),
     fixedTask(currentDate, 11, "07:00 PM", "08:00 PM", "Dinner", "meal"),
     [id          |-> fixedTaskId(currentDate, 12),
      date        |-> currentDate,
      startTime   |-> "08:00 PM",
      endTime     |-> "09:30 PM",
      activity    |-> "Light Study / Problem Solving / Review Day",
      taskType    |-> "study",
      subject     |-> "Mixed Revision",
      isCompleted |-> FALSE],
     fixedTask(currentDate, 13, "09:30 PM", "10:30 PM", "Plan for Next Day / Wind Down", "other"),
     fixedTask(currentDate, 14, "10:30 PM", "07:00 AM", "Sleep", "sleep") >>

\* The k-th createStudyTask call of a day (k = 1..4) made with the counter at
\* `counter`: the task and the counter afterwards.
studyCall(currentDate, allExamSubjects, focusSubjectValues, dayNumberInPeriod, k, counter) ==
  LET r == getTopicForStudySlot(allExamSubjects, focusSubjectValues, dayNumberInPeriod, counter)
  IN  [task    |-> createStudyTask(currentDate, StudySlotTimes[k][1], StudySlotTimes[k][2], r.topic),
       counter |-> r.counter]

\* generateDailyScheduleForDate: the 14 tasks of the day and the counter it
\* leaves in the shared studySlotCounterState.
generateDailyScheduleForDate(currentDate, allExamSubjects, focusSubjectValues, dayNumberInPeriod, counter) ==
  LET c1 == studyCall(currentDate, allExamSubjects, focusSubjectValues, dayNumberInPeriod, 1, counter)
      c2 == studyCall(currentDate, allExamSubjects, focusSubjectValues, dayNumberInPeriod, 2, c1.counter)
      c3 == studyCall(currentDate, allExamSubjects, focusSubjectValues, dayNumberInPeriod, 3, c2.counter)
      c4 == studyCall(currentDate, allExamSubjects, focusSubjectValues, dayNumberInPeriod, 4, c3.counter)
  IN  [tasks   |-> dayTasks(currentDate, <<c1.task, c2.task, c3.task, c4.task>>),
       counter |-> c4.counter]

(* ----------------------------- plan builder --------------------------- *)

\* Mutant: totalDays without the day of the exam.
totalDaysOfWithoutExamDay(examDate, today) ==
  LET d == differenceInDays(examDate, today)
  IN  IF d < 0 THEN 0 ELSE d

\* Mutant: totalDays without the clamp of a negative difference.
totalDaysOfUnclamped(examDate, today) == differenceInDays(examDate, today) + 1

\* let totalDays = differenceInDays(examDate, today);
\* if (totalDays < 0) totalDays = 0;  totalDays += 1;
totalDaysOf(examDate, today) ==
  LET d == differenceInDays(examDate, today)
  IN  (IF d < 0 THEN 0 ELSE d) + 1

\* The value of the fresh shared counter.
newStudySlotCounter == 0

\* The for loop of generateTimetable from iteration i on.
RECURSIVE daysFrom(_, _, _, _, _, _)
daysFrom(i, totalDays, today, examSubjects, focusSubjectValues, counter) ==
  IF i >= totalDays THEN <<>>
  ELSE LET d == generateDailyScheduleForDate(addDays(today, i), examSubjects,
                                             focusSubjectValues, i + 1, counter)
       IN  d.tasks \o daysFrom(i + 1, totalDays, today, examSubjects,
                               focusSubjectValues, d.counter)

genericSuggestions ==
  << "Stay hydrated throughout the day.",
     "Take short breaks every 60-90 minutes of study.",
     "Aim for 7-8 hours of quality sleep.",
     "Review notes from the previous day before starting new topics.",
     "Practice past papers regularly." >>

\* generateTimetable(data), called when the clock reads clock.
generateTimetable(data, clock) ==
  LET today     == startOfDay(clock)
      examDate  == startOfDay(data.examDate)
      totalDays == totalDaysOf(examDate, today)
  IN  [id                 |-> ToString(clock),
       examType           |-> data.examType,
       examDate           |-> data.examDate,
       focusTopics        |-> data.focusTopics,
       tasks              |-> daysFrom(0, totalDays, today, SubjectsOf(data.examType),
                                       data.focusTopics, newStudySlotCounter),
       createdAt          |-> clock,
       genericSuggestions |-> genericSuggestions]

(* -------------------------------- state -------------------------------- *)

VARIABLES
  now,                    \* the clock: what new Date() and Date.now() read
  data,                   \* the request generateTimetable is called with
  pc,                     \* where the running generateTimetable call stands
  today,                  \* generateTimetable's local today
  totalDays,              \* generateTimetable's local totalDays
  i,                      \* the loop variable of generateTimetable
  studySlotCounterState,  \* the counter of the shared studySlotCounterState
  allTasks,               \* generateTimetable's local allTasks
  dayStudy,               \* the study tasks built so far for the day under way
  returned,               \* what the completed calls returned, oldest first
  timetable,              \* the page's state `timetable` (None for null)
  stored,                 \* localStorage['acharya_timetable'] (None: no item)
  editingTaskId,          \* the page's state `editingTaskId` (None for null)
  editedTaskActivity,     \* the page's state `editedTaskActivity`
  toast,                  \* the title of the last toast shown ("" for none)
  ops,                    \* user operations performed on the page so far
  formValues,             \* the values of the form (examDate None: not picked)
  availableSubjectsForExam, \* the page's state `availableSubjectsForExam`
  effectPending           \* examTypeValue changed and its effect has not run

genVars  == <<data, pc, today, totalDays, i, studySlotCounterState, allTasks,
              dayStudy, returned>>
pageVars == <<timetable, stored, editingTaskId, editedTaskActivity, toast, ops>>
formVars == <<formValues, availableSubjectsForExam, effectPending>>
vars     == <<now, genVars, pageVars, formVars>>

(* ------------------------------- requests ------------------------------ *)

\* The clock reading the generator runs start from: the second tick of
\* 2024-01-30, so that plans run over the end of the month.
StartClock == 29 * TicksPerDay + 1

\* The keys of a catalog, and the selections of them in catalog order.
KeysOf(subjects) == [k \in DOMAIN subjects |-> subjects[k].value]
SelectionsOf(keys) ==
  {SelectSeq(keys, LAMBDA k : k \in S) : S \in SUBSET Range(keys)}

\* Focus lists that are not selections in catalog order: keys in another
\* order, and a key outside every catalog.
OtherFocusLists == { <<"chemistry", "physics">>, <<"history", "physics">> }

\* Exam dates from the day before today to MaxDays - 1 days after it, at
\* any tick of the day.
ExamDatesAt(clock) ==
  (startOfDay(clock) - TicksPerDay) .. (startOfDay(clock) + MaxDays * TicksPerDay - 1)

\* The requests generateTimetable is run with.
GenRequests(clock) ==
  UNION { [examType : {e}, examDate : ExamDatesAt(clock),
           focusTopics : SelectionsOf(KeysOf(SubjectsOf(e))) \cup OtherFocusLists]
          : e \in Range(EXAM_TYPES) }

\* The requests of the runs that repeat generateTimetable.
RegenRequests(clock) ==
  [examType : {"exam3", "other"},
   examDate : {startOfDay(clock), addDays(startOfDay(clock), 1)},
   focusTopics : { <<"physics", "chemistry">>, <<"biology">> }]

(* ---------------------- generateTimetable, by steps -------------------- *)

PageIdle ==
  /\ timetable = None /\ stored = None
  /\ editingTaskId = None /\ editedTaskActivity = "" /\ toast = "" /\ ops = 0

\* The form with its default values; no exam type, so no subjects to offer.
FormIdle ==
  /\ formValues = [examType |-> "", examDate |-> None, focusTopics |-> <<>>]
  /\ availableSubjectsForExam = <<>>
  /\ effectPending = FALSE

GenStart(requests) ==
  /\ now = StartClock
  /\ data \in requests
  /\ pc = "call"
  /\ today = 0 /\ totalDays = 0 /\ i = 0
  /\ studySlotCounterState = 0
  /\ allTasks = <<>> /\ dayStudy = <<>>
  /\ returned = <<>>
  /\ PageIdle
  /\ FormIdle

\* The catalog and the date of the day under way.
examSubjects == SubjectsOf(data.examType)
currentDate  == addDays(today, i)

\* Mutant: allTasks is kept from the call before.
GenerateTimetableEntryKeepingTasks ==
  /\ pc = "call"
  /\ today' = startOfDay(now)
  /\ totalDays' = totalDaysOf(startOfDay(data.examDate), startOfDay(now))
  /\ studySlotCounterState' = newStudySlotCounter
  /\ i' = 0
  /\ dayStudy' = <<>>
  /\ pc' = "loop"
  /\ UNCHANGED <<formVars, now, data, allTasks, returned, pageVars>>

\* Entry of generateTimetable up to the loop: the locals are initialised.
GenerateTimetableEntry ==
  /\ pc = "call"
  /\ today' = startOfDay(now)
  /\ totalDays' = totalDaysOf(startOfDay(data.examDate), startOfDay(now))
  /\ studySlotCounterState' = newStudySlotCounter
  /\ allTasks' = <<>>
  /\ i' = 0
  /\ dayStudy' = <<>>
  /\ pc' = "loop"
  /\ UNCHANGED <<formVars, now, data, returned, pageVars>>

\* Mutant: the counter started afresh for every day.
DayEntryResettingCounter ==
  /\ pc = "loop" /\ i < totalDays
  /\ pc' = "day"
  /\ dayStudy' = <<>>
  /\ studySlotCounterState' = newStudySlotCounter
  /\ UNCHANGED <<formVars, now, data, today, totalDays, i, allTasks, returned, pageVars>>

\* The loop test succeeds: generateDailyScheduleForDate is entered.
DayEntry ==
  /\ pc = "loop" /\ i < totalDays
  /\ pc' = "day"
  /\ dayStudy' = <<>>
  /\ UNCHANGED <<formVars, now, data, today, totalDays, i, studySlotCounterState, allTasks,
                 returned, pageVars>>

\* The next createStudyTask call of the day, with its allocator call.
CreateStudyTask ==
  /\ pc = "day" /\ Len(dayStudy) < MAX_STUDY_SLOTS_PER_DAY
  /\ LET c == studyCall(currentDate, examSubjects, data.focusTopics, i + 1,
                        Len(dayStudy) + 1, studySlotCounterState)
     IN  /\ dayStudy' = Append(dayStudy, c.task)
         /\ studySlotCounterState' = c.counter
  /\ UNCHANGED <<formVars, now, data, pc, today, totalDays, i, allTasks, returned, pageVars>>

\* generateDailyScheduleForDate returns; allTasks.push(...dailyTasks); i++.
DayReturn ==
  /\ pc = "day" /\ Len(dayStudy) = MAX_STUDY_SLOTS_PER_DAY
  /\ allTasks' = allTasks \o dayTasks(currentDate, dayStudy)
  /\ i' = i + 1
  /\ dayStudy' = <<>>
  /\ pc' = "loop"
  /\ UNCHANGED <<formVars, now, data, today, totalDays, studySlotCounterState, returned, pageVars>>

\* The plan the return statement builds.
returnedPlan ==
  [id                 |-> ToString(now),
   examType           |-> data.examType,
   examDate           |-> data.examDate,
   focusTopics        |-> data.focusTopics,
   tasks              |-> allTasks,
   createdAt          |-> now,
   genericSuggestions |-> genericSuggestions]

\* The loop test fails: generateTimetable returns the plan.
Return ==
  /\ pc = "loop" /\ i >= totalDays
  /\ returned' = Append(returned, [data |-> data, clock |-> now, plan |-> returnedPlan])
  /\ pc' = "idle"
  /\ UNCHANGED <<formVars, now, data, today, totalDays, i, studySlotCounterState, allTasks,
                 dayStudy, pageVars>>

\* generateTimetable is called again, with any request.
Regenerate ==
  /\ pc = "idle" /\ Len(returned) < MaxRuns
  /\ data' \in RegenRequests(now)
  /\ pc' = "call"
  /\ UNCHANGED <<formVars, now, today, totalDays, i, studySlotCounterState, allTasks,
                 dayStudy, returned, pageVars>>

GenInit == GenStart(GenRequests(StartClock))
GenNext ==
  \/ GenerateTimetableEntry
  \/ DayEntry
  \/ CreateStudyTask
  \/ DayReturn
  \/ Return

\* One run of generateTimetable on every request of GenRequests.
GenSpec == GenInit /\ [][GenNext]_vars

RegenInit == GenStart(RegenRequests(StartClock))
RegenNext == GenNext \/ Regenerate

\* Up to MaxRuns runs of generateTimetable, one after the other.
RegenSpec == RegenInit /\ [][RegenNext]_vars

(* ------------------------------- the page ------------------------------ *)

\* Date.prototype.toISOString, as JSON.stringify applies it: the ISO text
\* naming the instant.  parseISO reads the instant back.
toISOString(t) == [iso |-> t]
parseISO(text) == text.iso

\* JSON.stringify(timetable): every Date becomes its ISO text.
JSONstringify(tt) ==
  [tt EXCEPT !.examDate = toISOString(@),
             !.createdAt = toISOString(@),
             !.tasks = [k \in DOMAIN @ |-> [@[k] EXCEPT !.date = toISOString(@)]]]

\* JSON.parse(savedTimetable) followed by the parseISO calls of the mount
\* effect.
parseSaved(text) ==
  [text EXCEPT !.examDate = parseISO(@),
               !.createdAt = parseISO(@),
               !.tasks = [k \in DOMAIN @ |-> [@[k] EXCEPT !.date = parseISO(@)]]]

\* The place of a character in the collation order localeCompare uses:
\* white space, punctuation, digits, letters.
CharRank(c) ==
  CASE c = " " -> 0 [] c = ":" -> 1 [] c = "/" -> 2
    [] c = "0" -> 3 [] c = "1" -> 4 [] c = "2" -> 5 [] c = "3" -> 6 [] c = "4" -> 7
    [] c = "5" -> 8 [] c = "6" -> 9 [] c = "7" -> 10 [] c = "8" -> 11 [] c = "9" -> 12
    [] c = "A" -> 13 [] c = "M" -> 14 [] c = "N" -> 15 [] c = "P" -> 16

\* String.prototype.localeCompare on character sequences: negative, zero or
\* positive.
RECURSIVE compareChars(_, _)
compareChars(a, b) ==
  IF a = <<>> THEN (IF b = <<>> THEN 0 ELSE -1)
  ELSE IF b = <<>> THEN 1
  ELSE IF CharRank(Head(a)) # CharRank(Head(b)) THEN CharRank(Head(a)) - CharRank(Head(b))
  ELSE compareChars(Tail(a), Tail(b))

localeCompare(a, b) == compareChars(Chars(a), Chars(b))

\* (a, b) => a.date.getTime() - b.date.getTime() || a.startTime.localeCompare(b.startTime)
compareTasks(a, b) ==
  IF a.date - b.date # 0 THEN a.date - b.date ELSE localeCompare(a.startTime, b.startTime)

\* Array.prototype.sort with compareTasks; the sort is stable.
RECURSIVE insertTask(_, _)
insertTask(sorted, t) ==
  IF sorted = <<>> THEN <<t>>
  ELSE IF compareTasks(Head(sorted), t) > 0 THEN <<t>> \o sorted
  ELSE <<Head(sorted)>> \o insertTask(Tail(sorted), t)

RECURSIVE sortTasks(_)
sortTasks(tasks) ==
  IF tasks = <<>> THEN <<>>
  ELSE insertTask(sortTasks(SubSeq(tasks, 1, Len(tasks) - 1)), tasks[Len(tasks)])

\* timetable.tasks.reduce((earliest, current) =>
\*   current.date < earliest ? current.date : earliest, timetable.tasks[0].date)
firstDateOf(tasks) ==
  CHOOSE d \in {tasks[k].date : k \in DOMAIN tasks} :
    \A k \in DOMAIN tasks : d <= tasks[k].date

\* `task-custom-${Date.now()}`
customTaskId(clock) == "task-custom-" \o ToString(clock)

\* The task handleAddTask builds.
newCustomTask(tasks, clock) ==
  [id          |-> customTaskId(clock),
   date        |-> firstDateOf(tasks),
   startTime   |-> "N/A",
   endTime     |-> "N/A",
   activity    |-> "New custom task",
   taskType    |-> "other",
   isCompleted |-> FALSE]

\* The requests the form submits: the schema wants an exam type and at least
\* one focus topic; the exam date is a midnight from yesterday to tomorrow.
PageRequests(clock) ==
  [examType : {"exam3", "other"},
   examDate : {addDays(startOfDay(clock), -1), startOfDay(clock),
               addDays(startOfDay(clock), 1)},
   focusTopics : { <<"physics", "chemistry">> }]

\* The texts typed into the textarea of the task being edited.
TypedTexts == {"Revise notes"}

\* Mutant: every save stamps the plan with the time of the save.
SetAndStoreStamping(tt) ==
  /\ timetable' = Some([tt EXCEPT !.createdAt = now])
  /\ stored' = Some(JSONstringify([tt EXCEPT !.createdAt = now]))

\* setTimetable(tt); localStorage.setItem('acharya_timetable', JSON.stringify(tt))
SetAndStore(tt) ==
  /\ timetable' = Some(tt)
  /\ stored' = Some(JSONstringify(tt))

\* The tasks the page renders, each with its buttons.
RenderedTasks == IF timetable = None THEN <<>> ELSE timetable[1].tasks

\* The places in the rendered list of the tasks the user works on.
Targets ==
  {k \in DOMAIN RenderedTasks : k <= MaxTargets \/ RenderedTasks[k].startTime = "N/A"}

\* groupedTasksByDate[dateStr]: the tasks of one date, in list order.
groupedTasksByDate(tasks, date) == SelectSeq(tasks, LAMBDA t : t.date = date)

\* .sort((a, b) => a.startTime.localeCompare(b.startTime)), a stable sort:
\* the order the tasks of one date are shown in.
RECURSIVE insertByStartTime(_, _)
insertByStartTime(sorted, t) ==
  IF sorted = <<>> THEN <<t>>
  ELSE IF localeCompare(Head(sorted).startTime, t.startTime) > 0 THEN <<t>> \o sorted
  ELSE <<Head(sorted)>> \o insertByStartTime(Tail(sorted), t)

RECURSIVE displayedTasks(_)
displayedTasks(tasks) ==
  IF tasks = <<>> THEN <<>>
  ELSE insertByStartTime(displayedTasks(SubSeq(tasks, 1, Len(tasks) - 1)), tasks[Len(tasks)])

PageInit ==
  /\ now = StartClock
  /\ data = [examType |-> "", examDate |-> 0, focusTopics |-> <<>>]
  /\ pc = "idle"
  /\ today = 0 /\ totalDays = 0 /\ i = 0
  /\ studySlotCounterState = 0
  /\ allTasks = <<>> /\ dayStudy = <<>>
  /\ returned = <<>>
  /\ PageIdle
  /\ FormIdle

\* onSubmit, called by form.handleSubmit with data the schema accepts.
OnSubmit ==
  /\ ops < MaxOps
  /\ \E d \in PageRequests(now) :
       IF isBefore(d.examDate, startOfDay(now))
         THEN /\ toast' = "Invalid Date"
              /\ UNCHANGED <<timetable, stored>>
         ELSE /\ SetAndStore(generateTimetable(d, now))
              /\ toast' = "Study Plan Generated!"
  /\ ops' = ops + 1
  /\ UNCHANGED <<formVars, now, genVars, editingTaskId, editedTaskActivity>>

\* timetable.tasks.map(task =>
\*   task.id === taskId ? { ...task, isCompleted: !task.isCompleted } : task)
toggleTasks(tasks, taskId) ==
  [j \in DOMAIN tasks |->
     IF tasks[j].id = taskId THEN [tasks[j] EXCEPT !.isCompleted = ~@] ELSE tasks[j]]

\* timetable.tasks.filter(task => task.id !== taskId)
deleteTask(tasks, taskId) == SelectSeq(tasks, LAMBDA t : t.id # taskId)

\* handleTaskToggle(task.id), from the checkbox of a rendered task.
HandleTaskToggle ==
  /\ ops < MaxOps
  /\ \E k \in Targets :
       SetAndStore([timetable[1] EXCEPT !.tasks = toggleTasks(@, RenderedTasks[k].id)])
  /\ ops' = ops + 1
  /\ UNCHANGED <<formVars, now, genVars, editingTaskId, editedTaskActivity, toast>>

\* handleEditTask(task), from the edit button of a rendered task that is not
\* being edited.
HandleEditTask ==
  /\ ops < MaxOps
  /\ \E k \in Targets :
       /\ editingTaskId # Some(RenderedTasks[k].id)
       /\ editingTaskId' = Some(RenderedTasks[k].id)
       /\ editedTaskActivity' = RenderedTasks[k].activity
  /\ ops' = ops + 1
  /\ UNCHANGED <<formVars, now, genVars, timetable, stored, toast>>

\* The textarea's onChange, on the task being edited.
TypeActivity ==
  /\ ops < MaxOps
  /\ \E k \in Targets : editingTaskId = Some(RenderedTasks[k].id)
  /\ \E text \in TypedTexts :
       /\ editedTaskActivity # text
       /\ editedTaskActivity' = text
  /\ ops' = ops + 1
  /\ UNCHANGED <<formVars, now, genVars, timetable, stored, editingTaskId, toast>>

\* Mutant: the edit is saved to the page's state only, not to storage.
HandleSaveTaskEditWithoutStore ==
  /\ ops < MaxOps
  /\ \E k \in Targets :
       LET taskId == RenderedTasks[k].id
           updatedTasks == [j \in DOMAIN timetable[1].tasks |->
                              IF timetable[1].tasks[j].id = taskId
                                THEN [timetable[1].tasks[j] EXCEPT !.activity = editedTaskActivity]
                                ELSE timetable[1].tasks[j]]
       IN  /\ editingTaskId = Some(taskId)
           /\ timetable' = Some([timetable[1] EXCEPT !.tasks = updatedTasks])
  /\ editingTaskId' = None
  /\ toast' = "Task Updated"
  /\ ops' = ops + 1
  /\ UNCHANGED <<formVars, now, genVars, editedTaskActivity, stored>>

\* handleSaveTaskEdit(task.id), from the save button of the task being edited.
HandleSaveTaskEdit ==
  /\ ops < MaxOps
  /\ \E k \in Targets :
       LET taskId == RenderedTasks[k].id
           updatedTasks == [j \in DOMAIN timetable[1].tasks |->
                              IF timetable[1].tasks[j].id = taskId
                                THEN [timetable[1].tasks[j] EXCEPT !.activity = editedTaskActivity]
                                ELSE timetable[1].tasks[j]]
       IN  /\ editingTaskId = Some(taskId)
           /\ SetAndStore([timetable[1] EXCEPT !.tasks = updatedTasks])
  /\ editingTaskId' = None
  /\ toast' = "Task Updated"
  /\ ops' = ops + 1
  /\ UNCHANGED <<formVars, now, genVars, editedTaskActivity>>

\* Mutant: on a plan without tasks the new task is dated today instead of
\* being refused.
HandleAddTaskOnEmptyPlan ==
  /\ ops < MaxOps
  /\ timetable # None
  /\ LET newTask == IF Len(timetable[1].tasks) = 0
                      THEN [newCustomTask(<<[date |-> startOfDay(now)]>>, now)
                              EXCEPT !.date = startOfDay(now)]
                      ELSE newCustomTask(timetable[1].tasks, now)
     IN  /\ SetAndStore([timetable[1] EXCEPT
                           !.tasks = sortTasks(Append(timetable[1].tasks, newTask))])
         /\ editingTaskId' = Some(newTask.id)
         /\ editedTaskActivity' = newTask.activity
         /\ toast' = "Task Added"
  /\ ops' = ops + 1
  /\ UNCHANGED <<formVars, now, genVars>>

\* handleAddTask, from the Add Task button, which is rendered with a plan.
HandleAddTask ==
  /\ ops < MaxOps
  /\ timetable # None
  /\ IF Len(timetable[1].tasks) = 0
       THEN /\ toast' = "Cannot Add Task"
            /\ UNCHANGED <<timetable, stored, editingTaskId, editedTaskActivity>>
       ELSE LET newTask == newCustomTask(timetable[1].tasks, now)
            IN  /\ toast' = "Task Added"
                /\ editingTaskId' = Some(newTask.id)
                /\ editedTaskActivity' = newTask.activity
                /\ SetAndStore([timetable[1] EXCEPT
                                  !.tasks = sortTasks(Append(timetable[1].tasks, newTask))])
  /\ ops' = ops + 1
  /\ UNCHANGED <<formVars, now, genVars>>

\* handleDeleteTask(task.id), from the delete button of a rendered task.
HandleDeleteTask ==
  /\ ops < MaxOps
  /\ \E k \in Targets :
       SetAndStore([timetable[1] EXCEPT !.tasks = deleteTask(@, RenderedTasks[k].id)])
  /\ toast' = "Task Deleted"
  /\ ops' = ops + 1
  /\ UNCHANGED <<formVars, now, genVars, editingTaskId, editedTaskActivity>>

\* The page is loaded again: the state is the initial one, and the mount
\* effect reads the saved plan.
Mount ==
  /\ ops < MaxOps
  /\ stored # None
  /\ timetable' = Some(parseSaved(stored[1]))
  /\ editingTaskId' = None
  /\ editedTaskActivity' = ""
  /\ toast' = ""
  /\ ops' = ops + 1
  /\ UNCHANGED <<formVars, now, genVars, stored>>

\* The clock advances by one tick.
Tick ==
  /\ now < StartClock + MaxTicks
  /\ now' = now + 1
  /\ UNCHANGED <<formVars, genVars, pageVars>>

PageNext ==
  \/ OnSubmit
  \/ HandleTaskToggle
  \/ HandleEditTask
  \/ TypeActivity
  \/ HandleSaveTaskEdit
  \/ HandleAddTask
  \/ HandleDeleteTask
  \/ Mount
  \/ Tick

\* The page under up to MaxOps user operations.
PageSpec == PageInit /\ [][PageNext]_vars

(* -------------------- a plan whose tasks were deleted ------------------ *)

\* handleDeleteTask applied to each id of a list in turn.
RECURSIVE deleteEach(_, _)
deleteEach(tasks, ids) ==
  IF ids = <<>> THEN tasks
  ELSE deleteEach(deleteTask(tasks, Head(ids)), Tail(ids))

\* The plan generateTimetable built for request d at StartClock, after the
\* user deleted every task but the first n.
EmptiedPlan(d, n) ==
  LET plan == generateTimetable(d, StartClock)
  IN  [plan EXCEPT
         !.tasks = deleteEach(@, [k \in 1..(Len(@) - n) |-> @[n + k].id])]

\* The page after a plan was generated and all of its tasks, or all but the
\* first, were deleted one by one.
EmptiedInit ==
  /\ now = StartClock
  /\ data = [examType |-> "", examDate |-> 0, focusTopics |-> <<>>]
  /\ pc = "idle"
  /\ today = 0 /\ totalDays = 0 /\ i = 0
  /\ studySlotCounterState = 0
  /\ allTasks = <<>> /\ dayStudy = <<>>
  /\ returned = <<>>
  /\ \E d \in PageRequests(StartClock) : \E n \in 0..1 :
       /\ ~isBefore(d.examDate, startOfDay(StartClock))
       /\ timetable = Some(EmptiedPlan(d, n))
       /\ stored = Some(JSONstringify(EmptiedPlan(d, n)))
  /\ editingTaskId = None /\ editedTaskActivity = ""
  /\ toast = "Task Deleted"
  /\ ops = 0
  /\ FormIdle

EmptiedNext ==
  \/ HandleTaskToggle
  \/ HandleEditTask
  \/ TypeActivity
  \/ HandleSaveTaskEdit
  \/ HandleAddTask
  \/ HandleDeleteTask
  \/ Mount
  \/ Tick

\* The page from a plan with at most one task left, under up to MaxOps user
\* operations.
EmptiedSpec == EmptiedInit /\ [][EmptiedNext]_vars

(* ------------------------ onSubmit, step by step ----------------------- *)

\* Mutant: onSubmit without its date check.
OnSubmitCallWithoutDateCheck ==
  /\ pc = "idle" /\ ops < MaxOps
  /\ \E d \in PageRequests(now) :
       /\ data' = d
       /\ pc' = "call"
       /\ UNCHANGED toast
  /\ ops' = ops + 1
  /\ UNCHANGED <<formVars, now, today, totalDays, i, studySlotCounterState, allTasks, dayStudy,
                 returned, timetable, stored, editingTaskId, editedTaskActivity>>

\* onSubmit up to its generateTimetable call: a past exam date is refused
\* with a toast, any other request is handed to generateTimetable.
OnSubmitCall ==
  /\ pc = "idle" /\ ops < MaxOps
  /\ \E d \in PageRequests(now) :
       IF isBefore(d.examDate, startOfDay(now))
         THEN /\ toast' = "Invalid Date"
              /\ UNCHANGED <<data, pc>>
         ELSE /\ data' = d
              /\ pc' = "call"
              /\ UNCHANGED toast
  /\ ops' = ops + 1
  /\ UNCHANGED <<formVars, now, today, totalDays, i, studySlotCounterState, allTasks, dayStudy,
                 returned, timetable, stored, editingTaskId, editedTaskActivity>>

\* Mutant: generateTimetable returns from inside its loop.
OnSubmitStoreEarly ==
  /\ pc = "loop"
  /\ SetAndStore(returnedPlan)
  /\ toast' = "Study Plan Generated!"
  /\ pc' = "idle"
  /\ UNCHANGED <<formVars, now, data, today, totalDays, i, studySlotCounterState, allTasks,
                 dayStudy, returned, editingTaskId, editedTaskActivity, ops>>

\* The loop test fails: generateTimetable returns the plan, and onSubmit sets
\* it as the page's plan, stores it and shows the toast.
OnSubmitStore ==
  /\ pc = "loop" /\ i >= totalDays
  /\ SetAndStore(returnedPlan)
  /\ toast' = "Study Plan Generated!"
  /\ pc' = "idle"
  /\ UNCHANGED <<formVars, now, data, today, totalDays, i, studySlotCounterState, allTasks,
                 dayStudy, returned, editingTaskId, editedTaskActivity, ops>>

\* The steps of the synchronous code of one onSubmit call.
HandlerStep ==
  \/ GenerateTimetableEntry
  \/ DayEntry
  \/ CreateStudyTask
  \/ DayReturn
  \/ OnSubmitStore

SubmitNext ==
  \/ OnSubmitCall
  \/ HandlerStep
  \/ Tick

\* The page under up to MaxOps submissions, each run step by step while the
\* clock goes on; a handler that has started runs on.
SubmitSpec == PageInit /\ [][SubmitNext]_vars /\ WF_vars(HandlerStep)

(* ------------------------------- the form ------------------------------ *)

\* The dates the calendar lets the user pick: those not before the start of
\* today; here today and tomorrow.
CalendarDates(clock) == {startOfDay(clock), addDays(startOfDay(clock), 1)}

\* The Select's onValueChange: field.onChange(value).  A changed
\* examTypeValue schedules the effect that depends on it.
SelectExamType ==
  /\ ~effectPending /\ ops < MaxFormEvents
  /\ \E e \in Range(EXAM_TYPES) :
       /\ formValues' = [formValues EXCEPT !.examType = e]
       /\ effectPending' = (e # formValues.examType)
  /\ ops' = ops + 1
  /\ UNCHANGED <<now, genVars, timetable, stored, editingTaskId, editedTaskActivity,
                 toast, availableSubjectsForExam>>

\* Mutant: the effect without form.setValue('focusTopics', []).
ExamTypeEffectKeepingFocus ==
  /\ effectPending
  /\ availableSubjectsForExam' =
       IF formValues.examType # "" THEN SubjectsOf(formValues.examType) ELSE <<>>
  /\ effectPending' = FALSE
  /\ UNCHANGED <<now, genVars, pageVars, formValues>>

\* The effect on examTypeValue.  React runs it before it handles the next
\* event, so no event of the form comes between the change and the effect.
ExamTypeEffect ==
  /\ effectPending
  /\ IF formValues.examType # ""
       THEN /\ availableSubjectsForExam' = SubjectsOf(formValues.examType)
            /\ formValues' = [formValues EXCEPT !.focusTopics = <<>>]
       ELSE /\ availableSubjectsForExam' = <<>>
            /\ UNCHANGED formValues
  /\ effectPending' = FALSE
  /\ UNCHANGED <<now, genVars, pageVars>>

\* onCheckedChange of the checkbox of one of the subjects on offer: the key
\* is appended when the box gets checked and filtered out otherwise.
ToggleFocusTopic ==
  /\ ~effectPending /\ ops < MaxFormEvents
  /\ formValues.examType # "" /\ Len(availableSubjectsForExam) > 0
  /\ \E k \in DOMAIN availableSubjectsForExam :
       LET key == availableSubjectsForExam[k].value
       IN  formValues' =
             [formValues EXCEPT
                !.focusTopics = IF Includes(@, key)
                                  THEN SelectSeq(@, LAMBDA v : v # key)
                                  ELSE Append(@, key)]
  /\ ops' = ops + 1
  /\ UNCHANGED <<now, genVars, timetable, stored, editingTaskId, editedTaskActivity,
                 toast, availableSubjectsForExam, effectPending>>

\* The calendar's onSelect, on a date that is not disabled.
SelectExamDate ==
  /\ ~effectPending /\ ops < MaxFormEvents
  /\ \E d \in CalendarDates(now) :
       /\ formValues.examDate # Some(d)
       /\ formValues' = [formValues EXCEPT !.examDate = Some(d)]
  /\ ops' = ops + 1
  /\ UNCHANGED <<now, genVars, timetable, stored, editingTaskId, editedTaskActivity,
                 toast, availableSubjectsForExam, effectPending>>

\* timetableFormSchema accepts the values of the form.
SchemaAccepts(values) ==
  /\ values.examType # ""
  /\ values.examDate # None
  /\ Len(values.focusTopics) >= 1

\* form.handleSubmit(onSubmit): onSubmit is called with the values when the
\* schema accepts them; data keeps the request generateTimetable got.
HandleSubmit ==
  /\ ~effectPending /\ ops < MaxFormEvents
  /\ IF SchemaAccepts(formValues)
       THEN LET d == [examType    |-> formValues.examType,
                      examDate    |-> formValues.examDate[1],
                      focusTopics |-> formValues.focusTopics]
            IN  IF isBefore(d.examDate, startOfDay(now))
                  THEN /\ toast' = "Invalid Date"
                       /\ UNCHANGED <<data, timetable, stored>>
                  ELSE /\ data' = d
                       /\ SetAndStore(generateTimetable(d, now))
                       /\ toast' = "Study Plan Generated!"
       ELSE UNCHANGED <<data, timetable, stored, toast>>
  /\ ops' = ops + 1
  /\ UNCHANGED <<now, pc, today, totalDays, i, studySlotCounterState, allTasks, dayStudy,
                 returned, editingTaskId, editedTaskActivity, formVars>>

FormNext ==
  \/ SelectExamType
  \/ ExamTypeEffect
  \/ ToggleFocusTopic
  \/ SelectExamDate
  \/ HandleSubmit

\* The form under up to MaxFormEvents events of the user, the clock standing
\* still.
FormSpec == PageInit /\ [][FormNext]_vars

(* ------------------------- reading a built plan ------------------------ *)

\* A generateTimetable call has returned and none is under way.
Finished == pc = "idle" /\ returned # <<>>

\* The tasks of the plan the last call returned.
PlanTasks == returned[Len(returned)].plan.tasks

\* The positions, in a generated task list, of the tasks the four
\* createStudyTask calls of each day built.
AllocatorPositions(tasks) ==
  {p \in DOMAIN tasks : ((p - 1) % 14) + 1 \in {3, 5, 7, 9}}

focusNow == focusTopicsFull(examSubjects, data.focusTopics)
otherNow == otherTopicsFull(examSubjects, data.focusTopics)

LabelsOf(subjects) == {subjects[k].label : k \in DOMAIN subjects}

\* The allocator-driven slots of a task list that went to one of `labels`.
SlotsGivenTo(tasks, labels) ==
  {p \in AllocatorPositions(tasks) : tasks[p].subject \in labels}

\* Whole days from today to the exam date, counted on the calendar.
CalendarDays == (data.examDate \div TicksPerDay) - (now \div TicksPerDay)

(* -------------------------------- claims ------------------------------- *)

\* C1 (as stated): in a built plan with focus and other subjects both
\* non-empty, the focus subjects hold a strict majority of the 4N
\* allocator-driven study slots.
C1_FocusStrictMajority ==
  (Finished /\ focusNow # <<>> /\ otherNow # <<>>)
    => 2 * Cardinality(SlotsGivenTo(PlanTasks, LabelsOf(focusNow)))
         > Cardinality(AllocatorPositions(PlanTasks))

\* C2 (as stated): every subject of a non-empty catalog is assigned to some
\* allocator-driven slot of a long enough plan.  The subjects of day d depend
\* on d only through 4(d-1) mod |focus| and 4(d-1) mod |other|, which repeat
\* with a period of at most 5 days for catalogs of up to 5 subjects, so a
\* subject missing from a plan of MaxDays days is missing from every plan.
C2_EverySubjectAppears ==
  (Finished /\ totalDays = MaxDays)
    => \A k \in DOMAIN examSubjects :
         SlotsGivenTo(PlanTasks, {examSubjects[k].label}) # {}

\* C3: with 3 focus and 2 other subjects, a 5-day plan assigns each of the 5
\* subjects to at least one of its 20 allocator-driven study slots.
C3_FullRotationCoverage ==
  (Finished /\ Len(focusNow) = 3 /\ Len(otherNow) = 2 /\ totalDays = 5)
    => /\ Cardinality(AllocatorPositions(PlanTasks)) = 20
       /\ \A k \in DOMAIN examSubjects :
            SlotsGivenTo(PlanTasks, {examSubjects[k].label}) # {}

C3_Witness ==
  /\ Finished /\ Len(focusNow) = 3 /\ Len(otherNow) = 2 /\ totalDays = 5
  /\ data.focusTopics = <<"physics", "biology", "english">>
  /\ \A k \in DOMAIN examSubjects :
       SlotsGivenTo(PlanTasks, {examSubjects[k].label}) # {}

\* C4 (as stated): every allocator call increments the shared counter by
\* exactly one, also when it returns null because the catalog is empty.
C4_EveryCallIncrements ==
  [][CreateStudyTask => studySlotCounterState' = studySlotCounterState + 1]_vars

\* C4 (amended): an allocator call increments the shared counter by exactly
\* one when the catalog is non-empty, and leaves it unchanged when it returns
\* null because the catalog is empty.
C4_CallIncrementsUnlessCatalogEmpty ==
  [][CreateStudyTask =>
       studySlotCounterState' =
         IF examSubjects = <<>> THEN studySlotCounterState
                                ELSE studySlotCounterState + 1]_vars

C4_Witness ==
  /\ pc = "day" /\ i = 1 /\ Len(dayStudy) = 3
  /\ examSubjects # <<>>
  /\ studySlotCounterState = 7

\* C5 (as stated): with an empty catalog every task of category study has
\* subject "General Revision" and activity "Study: General Revision".
C5_EveryStudyTaskGeneralRevision ==
  (Finished /\ examSubjects = <<>>)
    => \A p \in DOMAIN PlanTasks :
         PlanTasks[p].taskType = "study"
           => /\ PlanTasks[p].subject = "General Revision"
              /\ PlanTasks[p].activity = "Study: General Revision"

\* C5 (amended): with an empty catalog each of the four allocator-driven study
\* tasks of every day has subject "General Revision" and activity
\* "Study: General Revision"; the only other task of category study, the fixed
\* light-study task of the day, has subject "Mixed Revision".
C5_AllocatorTasksGeneralRevision ==
  (Finished /\ examSubjects = <<>>)
    => \A p \in DOMAIN PlanTasks :
         PlanTasks[p].taskType = "study"
           => IF p \in AllocatorPositions(PlanTasks)
                THEN /\ PlanTasks[p].subject = "General Revision"
                     /\ PlanTasks[p].activity = "Study: General Revision"
                ELSE /\ (p - 1) % 14 = 11
                     /\ PlanTasks[p].subject = "Mixed Revision"

C5_Witness ==
  /\ Finished /\ examSubjects = <<>> /\ totalDays = 2
  /\ Len(PlanTasks) = 28
  /\ PlanTasks[17].subject = "General Revision"
  /\ PlanTasks[26].subject = "Mixed Revision"

\* C6: for an exam date not before today, totalDays is the number of calendar
\* days from today to the exam date plus one, and the plan holds exactly 14
\* tasks dated d for every date d from today to the exam date and no task of
\* any other date: 14 * totalDays tasks.
C6_DayCountAndCoverage ==
  (Finished /\ data.examDate >= startOfDay(now))
    => /\ totalDays = CalendarDays + 1
       /\ Len(PlanTasks) = 14 * totalDays
       /\ \A d \in 0 .. CalendarDays :
            Cardinality({p \in DOMAIN PlanTasks :
                           PlanTasks[p].date = (now \div TicksPerDay + d) * TicksPerDay}) = 14
       /\ \A p \in DOMAIN PlanTasks :
            \E d \in 0 .. CalendarDays :
              PlanTasks[p].date = (now \div TicksPerDay + d) * TicksPerDay

C6_Witness ==
  /\ Finished /\ CalendarDays = 2 /\ totalDays = 3 /\ Len(PlanTasks) = 42
  /\ PlanTasks[42].id = "day20240201-task14"

\* C7 (as stated): with an exam date strictly before today generateTimetable
\* signals an error and produces no plan.
C7_PastExamDateProducesNoPlan ==
  data.examDate < startOfDay(now) => returned = <<>>

\* C7 (amended): generateTimetable does not validate the exam date: with an
\* exam date strictly before today it clamps totalDays to 1 and returns the
\* 14 tasks of today.  (The rejection is made by its caller, onSubmit.)
C7_PastExamDateClampedToToday ==
  (Finished /\ data.examDate < startOfDay(now))
    => /\ totalDays = 1
       /\ Len(PlanTasks) = 14
       /\ \A p \in DOMAIN PlanTasks : PlanTasks[p].date = startOfDay(now)

C7_Witness ==
  /\ Finished /\ data.examDate = startOfDay(now) - TicksPerDay
  /\ Len(PlanTasks) = 14
  /\ PlanTasks[1].id = "day20240130-task1"

\* C8: two calls of generateTimetable with the same request, on the same day,
\* return task lists equal in every field, ids included, whatever calls came
\* before or between.
C8_Determinism ==
  \A a, b \in DOMAIN returned :
    (returned[a].data = returned[b].data
       /\ startOfDay(returned[a].clock) = startOfDay(returned[b].clock))
      => returned[a].plan.tasks = returned[b].plan.tasks

C8_Witness ==
  /\ Len(returned) = 3
  /\ returned[1].data = returned[3].data
  /\ returned[2].data.examType # returned[1].data.examType
  /\ Len(returned[2].plan.tasks) = 28
  /\ returned[1].plan.tasks = returned[3].plan.tasks
  /\ Len(returned[3].plan.tasks) = 14

\* C9: the ids of the 14 * totalDays tasks of a returned plan are pairwise
\* distinct.
C9_GeneratedIdsDistinct ==
  Finished =>
    /\ Len(PlanTasks) = 14 * totalDays
    /\ \A p, q \in DOMAIN PlanTasks : p # q => PlanTasks[p].id # PlanTasks[q].id

C9_Witness ==
  /\ Finished /\ totalDays = 3
  /\ Cardinality({PlanTasks[p].id : p \in DOMAIN PlanTasks}) = 42

\* C10 (as stated): after any sequence of generate, toggle, edit, add and
\* delete operations, with any timing of the adds, the task ids of the plan,
\* in the page's state and in storage, are pairwise distinct.
C10_PlanIdsDistinct ==
  /\ \A p, q \in DOMAIN RenderedTasks :
       p # q => RenderedTasks[p].id # RenderedTasks[q].id
  /\ stored # None =>
       \A p, q \in DOMAIN stored[1].tasks :
         p # q => stored[1].tasks[p].id # stored[1].tasks[q].id

\* C11: in every plan state of the page, in memory and in storage, a task
\* has a subject label if and only if its category is study.
C11_SubjectIffStudy ==
  /\ \A k \in DOMAIN RenderedTasks :
       ("subject" \in DOMAIN RenderedTasks[k]) <=> (RenderedTasks[k].taskType = "study")
  /\ stored # None =>
       \A k \in DOMAIN stored[1].tasks :
         ("subject" \in DOMAIN stored[1].tasks[k]) <=> (stored[1].tasks[k].taskType = "study")

C11_Witness ==
  /\ timetable # None /\ ops = MaxOps
  /\ \E k \in DOMAIN RenderedTasks :
       /\ RenderedTasks[k].startTime = "N/A"
       /\ RenderedTasks[k].activity = "Revise notes"
       /\ "subject" \notin DOMAIN RenderedTasks[k]
  /\ \E k \in DOMAIN RenderedTasks :
       /\ RenderedTasks[k].taskType = "study"
       /\ RenderedTasks[k].subject = "Physics"

\* The position, in a generated task list, of study slot s (0..3) of day d
\* (1-based).
SlotPosition(d, s) == 14 * (d - 1) + 3 + 2 * s

\* The label at the rotation index of a non-empty list.
RotatedLabel(list, rot) == list[(rot % Len(list)) + 1].label

\* C12: with rot = (dayIndex - 1) * 4 + slotIndexInDay, study slots 0 and 1
\* get focus[rot mod |focus|] when the focus list is non-empty and
\* other[rot mod |other|] otherwise; slot 2 gets other[rot mod |other|] when
\* the other list is non-empty and focus[rot mod |focus|] otherwise.
C12_SlotsZeroToTwo ==
  (Finished /\ examSubjects # <<>>) =>
    \A d \in 1..totalDays : \A s \in 0..2 :
      LET rot   == (d - 1) * 4 + s
          first == IF s < 2 THEN focusNow ELSE otherNow
          other == IF s < 2 THEN otherNow ELSE focusNow
          want  == IF first # <<>> THEN RotatedLabel(first, rot)
                                   ELSE RotatedLabel(other, rot)
      IN  /\ PlanTasks[SlotPosition(d, s)].subject = want
          /\ PlanTasks[SlotPosition(d, s)].activity = "Study: " \o want

C12_Witness ==
  /\ Finished /\ totalDays >= 3
  /\ Len(focusNow) = 2 /\ Len(otherNow) = 3
  /\ PlanTasks[SlotPosition(2, 0)].subject = focusNow[1].label
  /\ PlanTasks[SlotPosition(2, 1)].subject = focusNow[2].label
  /\ PlanTasks[SlotPosition(2, 2)].subject = otherNow[1].label
  /\ PlanTasks[SlotPosition(3, 2)].subject = otherNow[2].label

\* The days (1-based) of the finished plan whose slot 3 went to one of
\* `labels`.
Slot3Days(labels) ==
  {d \in 1..totalDays : PlanTasks[SlotPosition(d, 3)].subject \in labels}

\* C13: slot 3 alternates by the parity of the counter, so that over the days
\* of a plan with both lists non-empty slot 3 is given a focus subject on some
\* days and an other subject on other days.
C13_Slot3Alternates ==
  (Finished /\ focusNow # <<>> /\ otherNow # <<>> /\ totalDays >= 2) =>
    /\ Slot3Days(LabelsOf(focusNow)) # {}
    /\ Slot3Days(LabelsOf(otherNow)) # {}

\* The result of the allocator call the current day makes next.
NextCall ==
  getTopicForStudySlot(examSubjects, data.focusTopics, i + 1, studySlotCounterState)

\* C14: the allocator is total.  Every call returns, null only when the
\* catalog is empty and otherwise a subject of the catalog, so that with a
\* non-empty catalog every allocator-driven study task carries a label of the
\* catalog, whatever the focus keys are (keys outside the catalog included).
C14_AllocatorTotal ==
  /\ (pc = "day" /\ Len(dayStudy) < MAX_STUDY_SLOTS_PER_DAY) =>
       /\ NextCall.topic = None <=> examSubjects = <<>>
       /\ NextCall.topic # None => NextCall.topic[1] \in Range(examSubjects)
  /\ pc = "day" =>
       \A k \in DOMAIN dayStudy :
         IF examSubjects = <<>> THEN dayStudy[k].subject = "General Revision"
         ELSE dayStudy[k].subject \in LabelsOf(examSubjects)
  /\ (Finished /\ examSubjects # <<>>) =>
       \A p \in AllocatorPositions(PlanTasks) :
         PlanTasks[p].subject \in LabelsOf(examSubjects)

C14_Witness ==
  /\ Finished /\ totalDays >= 3
  /\ Includes(data.focusTopics, "history")
  /\ Len(focusNow) = 1 /\ Len(otherNow) >= 2
  /\ \A p \in AllocatorPositions(PlanTasks) :
       PlanTasks[p].subject \in LabelsOf(examSubjects)

\* A time of day, hours and minutes on the 24-hour clock, written as the
\* template writes it ("hh:mm AM" / "hh:mm PM").
TwelveHour(hm) ==
  LET h == hm[1]
      h12 == IF h % 12 = 0 THEN 12 ELSE h % 12
  IN  Pad2(h12) \o ":" \o Pad2(hm[2]) \o (IF h < 12 THEN " AM" ELSE " PM")

\* The daily template as the specification lists it: the slot, its category,
\* its start and its end.
TemplateSlots ==
  << <<"Wake Up & Hydrate",                          "other",    <<7, 0>>,   <<7, 30>>  >>,
     <<"Breakfast & Morning Routine",                "meal",     <<7, 30>>,  <<8, 30>>  >>,
     <<"study-1",                                    "study",    <<8, 30>>,  <<10, 30>> >>,
     <<"Short Break / Quick Revision",               "break",    <<10, 30>>, <<11, 0>>  >>,
     <<"study-2",                                    "study",    <<11, 0>>,  <<13, 0>>  >>,
     <<"Lunch Break",                                "meal",     <<13, 0>>,  <<14, 0>>  >>,
     <<"study-3",                                    "study",    <<14, 0>>,  <<16, 0>>  >>,
     <<"Revision of Morning Topics",                 "revision", <<16, 0>>,  <<16, 30>> >>,
     <<"study-4",                                    "study",    <<16, 30>>, <<18, 0>>  >>,
     <<"Exercise / Free Time",                       "other",    <<18, 0>>,  <<19, 0>>  >>,
     <<"Dinner",                                     "meal",     <<19, 0>>,  <<20, 0>>  >>,
     <<"Light Study / Problem Solving / Review Day", "study",    <<20, 0>>,  <<21, 30>> >>,
     <<"Plan for Next Day / Wind Down",              "other",    <<21, 30>>, <<22, 30>> >>,
     <<"Sleep",                                      "sleep",    <<22, 30>>, <<7, 0>>   >> >>

\* Task t fills slot n of the template on date d.
FillsSlot(t, n, d) ==
  /\ t.date = d
  /\ t.taskType = TemplateSlots[n][2]
  /\ t.startTime = TwelveHour(TemplateSlots[n][3])
  /\ t.endTime = TwelveHour(TemplateSlots[n][4])
  /\ t.isCompleted = FALSE
  /\ IF n \in {3, 5, 7, 9} THEN t.activity = "Study: " \o t.subject
                            ELSE t.activity = TemplateSlots[n][1]

\* C15: for every date of the plan the day planner returns exactly 14 tasks,
\* in the template's order and with its times, none completed, and each of
\* the four allocator-driven study tasks is named "Study: " and its subject.
C15_DayTemplate ==
  /\ (pc = "day" /\ Len(dayStudy) = MAX_STUDY_SLOTS_PER_DAY) =>
       LET day == dayTasks(currentDate, dayStudy)
       IN  /\ Len(day) = Len(TemplateSlots)
           /\ \A n \in DOMAIN day : FillsSlot(day[n], n, currentDate)
  /\ Finished =>
       /\ Len(PlanTasks) = Len(TemplateSlots) * totalDays
       /\ \A p \in DOMAIN PlanTasks :
            FillsSlot(PlanTasks[p], ((p - 1) % 14) + 1, addDays(today, (p - 1) \div 14))

C15_Witness ==
  /\ Finished /\ totalDays = 2 /\ Len(PlanTasks) = 28
  /\ PlanTasks[15].activity = "Wake Up & Hydrate"
  /\ PlanTasks[19].activity = "Study: Chemistry"
  /\ PlanTasks[19].startTime = "11:00 AM" /\ PlanTasks[19].endTime = "01:00 PM"
  /\ PlanTasks[28].activity = "Sleep" /\ PlanTasks[28].endTime = "07:00 AM"

\* C16: with a non-empty catalog the counter starts at 0 once per run and is
\* never reset at a day boundary: the call for day d (1-based), slot s (0..3)
\* sees counter = 4 * (d - 1) + s and derives slot index s, and the counter is
\* 4 * totalDays when the run ends.
C16_CounterThreading ==
  examSubjects # <<>> =>
    /\ pc = "loop" => studySlotCounterState = 4 * i
    /\ pc = "day" =>
         /\ studySlotCounterState = 4 * ((i + 1) - 1) + Len(dayStudy)
         /\ Len(dayStudy) < MAX_STUDY_SLOTS_PER_DAY =>
              currentSlotIndexInDay(studySlotCounterState) = Len(dayStudy)
    /\ Finished => studySlotCounterState = 4 * totalDays

C16_Witness ==
  /\ examSubjects # <<>>
  /\ pc = "day" /\ i + 1 = 3 /\ Len(dayStudy) = 2
  /\ studySlotCounterState = 10

\* Plan tt holds every day from its first date to its exam date: 14 tasks a
\* day, the days in order.
CompletePlan(tt) ==
  /\ Len(tt.tasks) >= 14
  /\ LET first == tt.tasks[1].date
         days  == totalDaysOf(startOfDay(tt.examDate), first)
     IN  /\ Len(tt.tasks) = 14 * days
         /\ \A p \in DOMAIN tt.tasks : tt.tasks[p].date = addDays(first, (p - 1) \div 14)

\* C17: generateTimetable finishes after exactly totalDays day iterations,
\* and the page's plan and the stored plan change in one step from the value
\* before to the complete new plan: no state shows part of the new plan.
C17_TerminatesAndAtomic ==
  /\ [](/\ pc \in {"loop", "day"} => (i <= totalDays /\ Len(allTasks) = 14 * i)
        /\ pc = "day" => i < totalDays
        /\ timetable # None =>
             (CompletePlan(timetable[1]) /\ stored = Some(JSONstringify(timetable[1]))))
  /\ [][(timetable' # timetable \/ stored' # stored) =>
          /\ pc = "loop" /\ pc' = "idle" /\ i = totalDays
          /\ timetable' = Some(returnedPlan)
          /\ CompletePlan(returnedPlan)
          /\ stored' = Some(JSONstringify(returnedPlan))]_vars
  /\ (pc = "call") ~> (pc = "idle" /\ timetable = Some(returnedPlan))

C17_Witness ==
  /\ pc = "day" /\ totalDays = 2 /\ i = 1 /\ Len(allTasks) = 14
  /\ timetable # None /\ timetable[1].examType # data.examType
  /\ Len(timetable[1].tasks) = 28

\* The fields of a plan the generator sets, the task list apart.
PlanHeader(tt) ==
  <<tt.id, tt.examType, tt.examDate, tt.focusTopics, tt.createdAt, tt.genericSuggestions>>

\* The fields of a task no handler of the page is to change.
FixedFields(t) ==
  <<t.id, t.date, t.startTime, t.endTime, t.taskType,
    IF "subject" \in DOMAIN t THEN <<t.subject>> ELSE <<>> >>

\* One of the four mutations of a plan: toggle, save an edit, add, delete.
CallerMutation ==
  \/ HandleTaskToggle
  \/ HandleSaveTaskEdit
  \/ HandleAddTask
  \/ HandleDeleteTask

\* The step keeps the plan's header, in memory and in storage, the fixed
\* fields of every task that was there before, and the generator's state.
PlanAndTaskFieldsKept ==
  /\ timetable # None /\ timetable' # None /\ stored' # None
  /\ PlanHeader(timetable'[1]) = PlanHeader(timetable[1])
  /\ PlanHeader(parseSaved(stored'[1])) = PlanHeader(timetable[1])
  /\ \A k \in DOMAIN timetable[1].tasks : \A j \in DOMAIN timetable'[1].tasks :
       timetable'[1].tasks[j].id = timetable[1].tasks[k].id =>
         FixedFields(timetable'[1].tasks[j]) = FixedFields(timetable[1].tasks[k])
  /\ UNCHANGED genVars

\* C18: toggle, save, add and delete never run the generator again: each
\* leaves the plan's id, examType, examDate, focus keys, createdAt and tips
\* as they were, in memory and in storage, and changes the date, start time,
\* end time, category and subject of no task that was there before.
C18_MutationsKeepPlanAndTaskFields ==
  [][PlanAndTaskFieldsKept \/ ~CallerMutation]_vars

C18_Witness ==
  /\ timetable # None /\ toast = "Task Deleted"
  /\ timetable[1].createdAt < now
  /\ PlanHeader(timetable[1]) =
       PlanHeader(generateTimetable([examType    |-> timetable[1].examType,
                                     examDate    |-> timetable[1].examDate,
                                     focusTopics |-> timetable[1].focusTopics],
                                    timetable[1].createdAt))
  /\ \E k \in DOMAIN RenderedTasks :
       RenderedTasks[k].startTime = "N/A" /\ RenderedTasks[k].isCompleted

\* The focus lists a request for exam type e is made with.
FocusListsOf(e) == SelectionsOf(KeysOf(SubjectsOf(e))) \cup OtherFocusLists

\* Two focus lists name the same subjects of the catalog.
SameFocusSet(f, g, catalog) ==
  Range(f) \cap Range(KeysOf(catalog)) = Range(g) \cap Range(KeysOf(catalog))

\* C19: the focus keys count as a set.  Two requests with the same exam type
\* and exam date whose focus lists hold the same catalog keys, in any order
\* and with any keys outside the catalog, get identical task lists.
C19_FocusKeysAreASet ==
  Finished =>
    \A f \in FocusListsOf(data.examType) :
      SameFocusSet(f, data.focusTopics, examSubjects) =>
        generateTimetable([data EXCEPT !.focusTopics = f], now).tasks = PlanTasks

C19_Witness ==
  /\ Finished /\ totalDays >= 2 /\ Len(examSubjects) >= 3
  /\ data.focusTopics = <<"chemistry", "physics">>
  /\ PlanTasks[SlotPosition(1, 0)].subject = "Physics"
  /\ PlanTasks[SlotPosition(1, 1)].subject = "Chemistry"
  /\ PlanTasks =
       generateTimetable([data EXCEPT !.focusTopics = <<"physics", "chemistry">>], now).tasks

\* A list with the element at place j taken out.
Without(list, j) == SubSeq(list, 1, j - 1) \o SubSeq(list, j + 1, Len(list))

\* C20: the task list stays ordered by insertion: an add on a plan with tasks
\* puts in exactly one new task (category other, not completed, times "N/A",
\* dated the earliest date of the plan) and keeps every task that was there,
\* unchanged and in the same relative order.
C20_AddKeepsInsertionOrder ==
  [][(HandleAddTask /\ timetable[1].tasks # <<>>) =>
       \E j \in DOMAIN timetable'[1].tasks :
         /\ timetable'[1].tasks[j].taskType = "other"
         /\ ~timetable'[1].tasks[j].isCompleted
         /\ timetable'[1].tasks[j].startTime = "N/A"
         /\ timetable'[1].tasks[j].endTime = "N/A"
         /\ timetable'[1].tasks[j].date = firstDateOf(timetable[1].tasks)
         /\ Without(timetable'[1].tasks, j) = timetable[1].tasks]_vars

\* C21: a submission whose exam date is strictly before the start of today
\* is rejected before generation: generateTimetable is called only with an
\* exam date that is not before the start of today, and a submission that
\* does not call it leaves the page's plan and the stored plan as they were.
C21_PastDateRejected ==
  [][/\ (pc = "idle" /\ pc' = "call") => ~isBefore(data'.examDate, startOfDay(now))
     /\ (ops' = ops + 1 /\ pc' = "idle") =>
          /\ toast' = "Invalid Date"
          /\ UNCHANGED <<timetable, stored, genVars>>]_vars

C21_Witness ==
  /\ pc = "idle" /\ toast = "Invalid Date"
  /\ timetable # None /\ CompletePlan(timetable[1])
  /\ stored = Some(JSONstringify(timetable[1]))

\* An id no task of any plan has.
AbsentId == "no-such-task"

\* The ids of the tasks of a list.
IdsOf(tasks) == {tasks[k].id : k \in DOMAIN tasks}

\* C22: a toggle from a task flips isCompleted of that task and changes no
\* other field and no other task; toggling the same id twice gives the task
\* list back, and toggling an id that is not in the plan changes nothing.
C22_ToggleFlipsOneTask ==
  /\ [][HandleTaskToggle =>
          \E k \in DOMAIN timetable[1].tasks :
            timetable'[1].tasks = [timetable[1].tasks EXCEPT ![k].isCompleted = ~@]]_vars
  /\ [](timetable # None =>
          /\ \A t \in IdsOf(timetable[1].tasks) :
               toggleTasks(toggleTasks(timetable[1].tasks, t), t) = timetable[1].tasks
          /\ toggleTasks(timetable[1].tasks, AbsentId) = timetable[1].tasks)

\* C23: a delete from a task removes exactly that one task and leaves every
\* other task present, unchanged and in the same order, in every plan state
\* (custom tasks added earlier included); deleting an id that is not in the
\* plan changes nothing.
C23_DeleteRemovesOneTask ==
  /\ [][HandleDeleteTask =>
          \E k \in DOMAIN timetable[1].tasks :
            timetable'[1].tasks = Without(timetable[1].tasks, k)]_vars
  /\ [](timetable # None =>
          deleteTask(timetable[1].tasks, AbsentId) = timetable[1].tasks)

\* C24: an add when the plan's task list is empty (every task was deleted)
\* is refused: the page's plan, the stored plan and the editing state stay
\* as they were.
C24_AddRefusedOnEmptyPlan ==
  [][(HandleAddTask /\ timetable[1].tasks = <<>>) =>
       /\ UNCHANGED <<timetable, stored, editingTaskId, editedTaskActivity>>
       /\ toast' = "Cannot Add Task"]_vars

C24_Witness ==
  /\ toast = "Cannot Add Task"
  /\ timetable # None /\ timetable[1].tasks = <<>>
  /\ stored = Some(JSONstringify(timetable[1]))
  /\ editingTaskId # None /\ editedTaskActivity = "Revise notes"

\* C25: after every generate, toggle, save, add and delete, in any sequence,
\* the plan stored under 'acharya_timetable' is the serialisation of exactly
\* the page's plan, and reading it back gives that plan; without a plan in
\* the page nothing the handlers wrote is in storage.
C25_StoredIsThePlan ==
  IF timetable = None THEN stored = None
  ELSE /\ stored = Some(JSONstringify(timetable[1]))
       /\ parseSaved(stored[1]) = timetable[1]

C25_Witness ==
  /\ timetable # None /\ toast = "Task Updated"
  /\ stored = Some(JSONstringify(timetable[1]))
  /\ stored[1].createdAt = toISOString(StartClock)
  /\ \E k \in DOMAIN stored[1].tasks :
       /\ stored[1].tasks[k].activity = "Revise notes"
       /\ stored[1].tasks[k].date = toISOString(startOfDay(StartClock))

\* The study slots (0..3) of day d of the finished plan that went to one of
\* `labels`.
DaySlotsGivenTo(d, labels) ==
  {s \in 0..3 : PlanTasks[SlotPosition(d, s)].subject \in labels}

C27_EditingStateValid ==
  /\ [](editingTaskId # None => editingTaskId[1] \in IdsOf(RenderedTasks))
  /\ [][(OnSubmit /\ toast' = "Study Plan Generated!") => editingTaskId' = None]_vars

\* The dates of the tasks of a list.
DatesOf(tasks) == {tasks[k].date : k \in DOMAIN tasks}

\* C28: within each date the generated tasks are shown in chronological
\* order, 07:00 AM first and the 10:30 PM sleep last: ordering a day's tasks
\* by the page's comparison of the start-time strings gives the order of the
\* day template.
C28_DisplayedInTemplateOrder ==
  (timetable # None /\ toast = "Study Plan Generated!") =>
    \A d \in DatesOf(timetable[1].tasks) :
      LET shown == displayedTasks(groupedTasksByDate(timetable[1].tasks, d))
      IN  /\ shown = groupedTasksByDate(timetable[1].tasks, d)
          /\ \A n \in DOMAIN shown : shown[n].startTime = TwelveHour(TemplateSlots[n][3])
          /\ shown[1].startTime = "07:00 AM"
          /\ shown[Len(shown)].startTime = "10:30 PM"

\* The keys of the catalog of an exam type.
CatalogKeys(examType) == Range(KeysOf(SubjectsOf(examType)))

\* C29: whenever generateTimetable is invoked from the form, the submitted
\* focus keys are a non-empty subset of the catalog of the submitted exam
\* type, whatever exam-type changes, checkbox selections, effect runs and
\* submits came before.
C29_SubmittedFocusInCatalog ==
  /\ timetable # None =>
       /\ timetable[1].focusTopics # <<>>
       /\ Range(timetable[1].focusTopics) \subseteq CatalogKeys(timetable[1].examType)
       /\ data.examType = timetable[1].examType
       /\ data.focusTopics = timetable[1].focusTopics
  /\ (~effectPending /\ SchemaAccepts(formValues)) =>
       Range(formValues.focusTopics) \subseteq CatalogKeys(formValues.examType)

C29_Witness ==
  /\ timetable # None
  /\ timetable[1].examType = "exam2" /\ timetable[1].focusTopics = <<"chemistry">>
  /\ data.focusTopics = <<"chemistry">>
  /\ formValues.examType = "exam1" /\ formValues.focusTopics = <<>>
  /\ ~effectPending /\ Len(availableSubjectsForExam) = 1

\* The value of a digit character.
DigitValue(c) ==
  CASE c = "0" -> 0 [] c = "1" -> 1 [] c = "2" -> 2 [] c = "3" -> 3 [] c = "4" -> 4
    [] c = "5" -> 5 [] c = "6" -> 6 [] c = "7" -> 7 [] c = "8" -> 8 [] c = "9" -> 9

\* The minutes after midnight a "hh:mm AM" / "hh:mm PM" text stands for.
MinutesOf(text) ==
  LET c == Chars(text)
      h == 10 * DigitValue(c[1]) + DigitValue(c[2])
      m == 10 * DigitValue(c[4]) + DigitValue(c[5])
  IN  ((h % 12) + (IF c[7] = "P" THEN 12 ELSE 0)) * 60 + m

\* The minutes from the start to the end of a task; an end at or before the
\* start is on the next day.
DurationOf(t) ==
  LET span == MinutesOf(t.endTime) - MinutesOf(t.startTime)
  IN  IF span > 0 THEN span ELSE span + 24 * 60

RECURSIVE SumOfDurations(_)
SumOfDurations(tasks) ==
  IF tasks = <<>> THEN 0 ELSE DurationOf(Head(tasks)) + SumOfDurations(Tail(tasks))

\* C30: in every generated day the 14 template tasks are contiguous and do
\* not overlap: each task ends when the next one starts, the first starts at
\* 07:00 AM and the last, sleep, ends at 07:00 AM of the next day, so that
\* the day's tasks cover exactly 24 hours.
C30_TemplateContiguous ==
  Finished =>
    \A d \in 1..totalDays :
      LET day == SubSeq(PlanTasks, 14 * (d - 1) + 1, 14 * d)
      IN  /\ \A n \in 1..13 : day[n].endTime = day[n + 1].startTime
          /\ \A n \in 1..13 : MinutesOf(day[n].startTime) < MinutesOf(day[n].endTime)
          /\ day[1].startTime = "07:00 AM"
          /\ day[14].taskType = "sleep"
          /\ day[14].endTime = "07:00 AM"
          /\ MinutesOf(day[14].endTime) < MinutesOf(day[14].startTime)
          /\ SumOfDurations(day) = 24 * 60

C30_Witness ==
  /\ Finished /\ totalDays = 3
  /\ PlanTasks[28 + 5].endTime = "01:00 PM" /\ PlanTasks[28 + 6].startTime = "01:00 PM"
  /\ DurationOf(PlanTasks[28 + 14]) = 510
  /\ SumOfDurations(SubSeq(PlanTasks, 29, 42)) = 1440

====
